---- MODULE Spec2Model ----
(***************************************************************************)
(* A model of jsonschema-gen (src/cmd/jsonschema-gen/pinned/pinned.go):    *)
(* the one-shot pipeline main() runs, over a filesystem that several       *)
(* invocations share.                                                      *)
(*                                                                         *)
(* Text is a sequence of one-character strings; a path is the sequence of  *)
(* its components (<<>> is the filesystem root "/").  What the user owns   *)
(* and the tool only reads (the flags, the source file, go.mod's text) is  *)
(* an input of the action that reads it; what the tool writes (the         *)
(* temporary workspace) is state.                                          *)
(***************************************************************************)
EXTENDS Integers, Sequences, FiniteSets, TLC

\* ------------------------------------------------------------------ bounds

\* Depth of the deepest directory of the tree (a chain /, /a, /a/b, ...).
MaxDepth == 2

\* Lines of a go.mod file.
MaxLines == 2

\* ------------------------------------------------------- program constants

tmpDirName == "jsonschema-gen"

vendorDirName == "vendored"

\* The version floor of main(): goVer < "1.18".
FloorText == <<"1", ".", "1", "8">>

\* ------------------------------------------------------------------- text

Digit == <<"0", "1", "2", "3", "4", "5", "6", "7", "8", "9">>

\* The byte of a character, as Go's string comparison reads it.
Ord(c) ==
  IF c = "." THEN 46
  ELSE IF c = "/" THEN 47
  ELSE IF c \in {Digit[i] : i \in 1..10}
    THEN 47 + (CHOOSE i \in 1..10 : Digit[i] = c)
  ELSE 97

\* Go's s < t on strings: bytewise, a proper prefix is smaller.
RECURSIVE StrLess(_, _)
StrLess(s, t) ==
  IF t = <<>> THEN FALSE
  ELSE IF s = <<>> THEN TRUE
  ELSE IF Ord(Head(s)) # Ord(Head(t)) THEN Ord(Head(s)) < Ord(Head(t))
  ELSE StrLess(Tail(s), Tail(t))

\* The decimal digits of n, as the go directive of a go.mod spells a number.
RECURSIVE Itoa(_)
Itoa(n) ==
  IF n < 10 THEN <<Digit[n + 1]>>
  ELSE Itoa(n \div 10) \o <<Digit[(n % 10) + 1]>>

\* The text "major.minor".
VerText(v) == Itoa(v[1]) \o <<".">> \o Itoa(v[2])

\* ------------------------------------------------------------------ paths

CompNames == <<"a", "b", "c", "d">>

DirAt(n) == SubSeq(CompNames, 1, n)

Dirs == {DirAt(n) : n \in 0..MaxDepth}

\* filepath.Dir of a directory: the root is its own parent.
Parent(dir) == IF dir = <<>> THEN dir ELSE SubSeq(dir, 1, Len(dir) - 1)

IsPrefix(s, t) == Len(s) <= Len(t) /\ SubSeq(t, 1, Len(s)) = s

\* filepath.Rel(base, targ) for base an ancestor of targ, or targ itself.
Rel(base, targ) ==
  IF base = targ THEN <<".">> ELSE SubSeq(targ, Len(base) + 1, Len(targ))

\* findGoMod as it would be with the root test made before the look into the
\* directory: the filesystem root is never looked into.
RECURSIVE findGoModStopsEarly(_, _)
findGoModStopsEarly(dir, mods) ==
  IF Parent(dir) = dir THEN [found |-> FALSE, dir |-> <<>>]
  ELSE IF dir \in mods THEN [found |-> TRUE, dir |-> dir]
  ELSE findGoModStopsEarly(Parent(dir), mods)

\* findGoMod: the closest of dir and its ancestors that holds a go.mod, as
\* [found, dir]; found is FALSE for the code's "".  mods is the set of
\* directories holding a go.mod.
RECURSIVE findGoMod(_, _)
findGoMod(dir, mods) ==
  IF dir \in mods THEN [found |-> TRUE, dir |-> dir]
  ELSE IF Parent(dir) = dir THEN [found |-> FALSE, dir |-> <<>>]
  ELSE findGoMod(Parent(dir), mods)

\* ----------------------------------------------------------------- go.mod

\* The language versions a go directive declares here, as <<major, minor>>.
Versions == {<<1, 2>>, <<1, 9>>, <<1, 17>>, <<1, 18>>, <<1, 20>>, <<1, 100>>}

ModNames == {<<"m">>}

\* A line of go.mod: kw is what the line starts with ("module ", "go " or
\* neither), val the rest of the line after strings.TrimSpace.
GoModLines ==
  {[kw |-> "module", val |-> m] : m \in ModNames \cup {<<>>}}
    \cup {[kw |-> "go", val |-> VerText(v)] : v \in Versions}
    \cup {[kw |-> "other", val |-> <<>>]}

RECURSIVE SeqsUpTo(_, _)
SeqsUpTo(S, n) ==
  IF n = 0 THEN {<<>>}
  ELSE LET shorter == SeqsUpTo(S, n - 1)
       IN shorter \cup {Append(s, x) : s \in {t \in shorter : Len(t) = n - 1}, x \in S}

GoModTexts == SeqsUpTo(GoModLines, MaxLines)

\* parseGoMod's loop from line i on, with what the lines before i set.
RECURSIVE parseLines(_, _, _, _)
parseLines(lines, i, modName, goVer) ==
  IF i > Len(lines) THEN [modName |-> modName, goVer |-> goVer]
  ELSE LET line == lines[i]
           m == IF line.kw = "module" THEN line.val ELSE modName
           g == IF line.kw = "go" THEN line.val ELSE goVer
       IN IF g # <<>> /\ m # <<>>
            THEN [modName |-> m, goVer |-> g]
            ELSE parseLines(lines, i + 1, m, g)

parseGoMod(lines) == parseLines(lines, 1, <<>>, <<>>)

\* ------------------------------------------------------------ the rewrite

\* strings.ReplaceAll(s, old, new) for a non-empty old: the matches are taken
\* from the left and do not overlap; what was put in is not looked at again.
RECURSIVE ReplaceAll(_, _, _)
ReplaceAll(s, old, new) ==
  IF Len(s) < Len(old) THEN s
  ELSE IF SubSeq(s, 1, Len(old)) = old
    THEN new \o ReplaceAll(SubSeq(s, Len(old) + 1, Len(s)), old, new)
  ELSE <<Head(s)>> \o ReplaceAll(Tail(s), old, new)

\* strings.Split(s, "\n"): the pieces between the line breaks, the one after
\* the last line break too.
RECURSIVE Split(_)
Split(s) ==
  IF \A i \in 1..Len(s) : s[i] # "\n" THEN <<s>>
  ELSE LET i == CHOOSE k \in 1..Len(s) :
                  s[k] = "\n" /\ \A j \in 1..(k - 1) : s[j] # "\n"
       IN <<SubSeq(s, 1, i - 1)>> \o Split(SubSeq(s, i + 1, Len(s)))

\* Lines 218-225: the replacements of one file's text, from entry i of the
\* manifest on, in the manifest's order; an empty entry is skipped.
RECURSIVE renameText(_, _, _, _)
renameText(data, depList, i, prefix) ==
  IF i > Len(depList) THEN data
  ELSE LET dep == depList[i]
       IN renameText(IF dep = <<>> THEN data
                     ELSE ReplaceAll(data, dep, prefix \o <<"/">> \o dep),
                     depList, i + 1, prefix)

\* strings.HasSuffix(path, ".go") on a file name whose last element is its
\* suffix.
IsGoFile(path) == path[Len(path)] = ".go"

\* Line 148: filepath.Join(importPath, tmpDirName, vendorDirName), where the
\* separator is "/".
Prefix(importPath) == importPath \o <<"/", tmpDirName, "/", vendorDirName>>

\* The entry point main.templ renders: the import of the target package by
\* its import path, the import of the schema library, and the call on the
\* named type.
ImportLine(path) == <<"import ", "\"">> \o path \o <<"\"", "\n">>

EntryPoint(importPath, lib, typ) ==
  ImportLine(importPath) \o ImportLine(lib) \o <<"Reflect ", typ, "\n">>

\* ----------------------------------------------------------------- state

\* The invocations of the tool the model follows.
Procs == {"A", "B"}

\* The -type values: T and U are declared by the target package, X is not.
Types == {"T", "U", "X"}

Declared == {"T", "U"}

VARIABLES
  cfg,   \* the scenario: how many invocations overlap, and the inputs they draw
  mods,  \* the directories that hold a go.mod
  fs,    \* fs[d]: the directory d/jsonschema-gen, the workspace of a file in d
  inv,   \* inv[p]: main()'s position and locals in invocation p
  os,    \* os[p]: what invocation p wrote to stdout and stderr, and its exit
  rw,    \* renameImports at work on the text of a workspace's files
  ch,    \* a Cache object of lib/cache.js, its clock and its timers
  walk,  \* findGoMod at work, look by look, on a tree of directories
  home   \* the paths main() and copyDeps compute, as text, on either system

vars == <<cfg, mods, fs, inv, os, rw, ch, walk, home>>

\* An error is its message, a non-empty text; nil is no error.
nil == <<>>

\* No d/jsonschema-gen.  main is main.go ("none": no file, "empty": created,
\* "text": rendered from the descriptor [imp, typ]); rw counts the rewrites of
\* main.go, 2 standing for two or more; vendor is the copy of the snapshot
\* ("none", "partial", "raw": as embedded, "rw1": rewritten once, "rwN":
\* rewritten again); fds are the invocations holding main.go open.
NoWs ==
  [exists |-> FALSE, main |-> "none", imp |-> <<>>, typ |-> "", rw |-> 0,
   vendor |-> "none", fds |-> {}]

EmptyWs == [NoWs EXCEPT !.exists = TRUE]

\* main()'s locals; raised, hasWs and fs0 are history: the class of the fatal
\* condition raised (a-e of the error taxonomy, f for the removal), whether
\* os.MkdirAll(tmpDir) returned nil, and the workspaces as the invocation
\* found them.
IdleInv ==
  [pc |-> "idle", file |-> <<>>, type |-> "", src |-> "unread",
   fileDir |-> <<>>, pkgName |-> "", modDir |-> <<>>, modName |-> <<>>,
   goVer |-> <<>>, relPath |-> <<>>, importPath |-> <<>>,
   child |-> [started |-> FALSE, code |-> 0, stdout |-> <<>>, stderr |-> <<>>],
   runOK |-> FALSE, raised |-> "none", hasWs |-> FALSE, fs0 |-> [d \in Dirs |-> NoWs]]

NoOutput == [stdout |-> <<>>, stderr |-> <<>>, exited |-> FALSE, code |-> 0]

\* ------------------------------------------------------------ the reporter

failMsg(msg) == [kind |-> "error", error |-> msg]

\* fail as it would be with the object printed to standard output.
failToStdout(o, msg) ==
  [o EXCEPT !.stdout = Append(@, failMsg(msg)), !.exited = TRUE, !.code = 1]

\* fail: the error object on stderr, exit status 1.
fail(o, msg) ==
  [o EXCEPT !.stderr = Append(@, failMsg(msg)), !.exited = TRUE, !.code = 1]

\* must: fail on an error, go on otherwise.
must(o, err) == IF err # nil THEN fail(o, err) ELSE o

\* Proceed as it would be if an error of the rewrite did not stop the run.
ProceedPastRewrite(p, loc, next, err, class) ==
  /\ inv' = [inv EXCEPT ![p] =
               IF err = nil \/ class = "d" THEN [loc EXCEPT !.pc = next]
               ELSE [loc EXCEPT !.pc = "exited", !.raised = class]]
  /\ os' = [os EXCEPT ![p] = IF class = "d" THEN @ ELSE must(@, err)]

\* Invocation p goes on to pc next with locals loc, or stops on err, a fatal
\* condition of class class.
Proceed(p, loc, next, err, class) ==
  /\ inv' = [inv EXCEPT ![p] =
               IF err = nil THEN [loc EXCEPT !.pc = next]
               ELSE [loc EXCEPT !.pc = "exited", !.raised = class]]
  /\ os' = [os EXCEPT ![p] = must(@, err)]

\* ---------------------------------------------------------- the pipeline

Running(p) == inv[p].pc \notin {"idle", "exited"}

\* Lines 69-80: the flags; a missing one prints the usage and exits 1.
Start(p) ==
  /\ inv[p].pc = "idle"
  /\ Cardinality({q \in Procs : Running(q)}) < cfg.par
  /\ Cardinality({q \in Procs : inv[q].pc # "idle"}) < cfg.runs
  /\ \E d \in cfg.dirs, hasFile \in BOOLEAN, t \in cfg.types \cup {""} :
       LET loc == [IdleInv EXCEPT !.file = IF hasFile THEN Append(d, "x.go") ELSE <<>>,
                                  !.type = t, !.fs0 = fs]
       IN IF loc.file = <<>> \/ loc.type = ""
            THEN /\ inv' = [inv EXCEPT ![p] = [loc EXCEPT !.pc = "exited", !.raised = "a"]]
                 /\ os' = [os EXCEPT ![p] =
                             [@ EXCEPT !.stderr = Append(@, [kind |-> "usage", error |-> <<>>]),
                                       !.exited = TRUE, !.code = 1]]
            ELSE /\ inv' = [inv EXCEPT ![p] = [loc EXCEPT !.pc = "abs"]]
                 /\ os' = os
  /\ UNCHANGED <<home, walk, ch, rw, cfg, mods, fs>>

\* Lines 82-88: filepath.Abs, which fails when the working directory is gone.
AbsPath(p) ==
  /\ inv[p].pc = "abs"
  /\ \E ok \in BOOLEAN :
       Proceed(p, [inv[p] EXCEPT !.fileDir = IF ok THEN Parent(inv[p].file) ELSE <<>>],
               "pkg", IF ok THEN nil ELSE <<"getwd failed">>, "b")
  /\ UNCHANGED <<home, walk, ch, rw, cfg, mods, fs>>

\* parsePkgName on a source file that cannot be opened ("openerr"), has no
\* line starting with "package " ("nopkg"), or has one ("pkg").
parsePkgName(src) ==
  IF src = "openerr" THEN [pkgName |-> "", err |-> <<"open failed">>]
  ELSE IF src = "nopkg" THEN [pkgName |-> "", err |-> <<"package name not found in file">>]
  ELSE [pkgName |-> "models", err |-> nil]

\* Lines 90-93.
ParsePkg(p) ==
  /\ inv[p].pc = "pkg"
  /\ \E src \in cfg.srcs :
       LET r == parsePkgName(src)
       IN Proceed(p, [inv[p] EXCEPT !.src = src, !.pkgName = r.pkgName],
                  "locate", r.err, "b")
  /\ UNCHANGED <<home, walk, ch, rw, cfg, mods, fs>>

\* LocateMod as it would be with the workspace made before the search.
LocateModAfterMkdir(p) ==
  /\ inv[p].pc = "locate"
  /\ LET r == findGoMod(inv[p].fileDir, mods)
     IN Proceed(p, [inv[p] EXCEPT !.modDir = r.dir], "gomod",
                IF r.found THEN nil ELSE <<"go.mod not found for file">>, "b")
  /\ fs' = [fs EXCEPT ![inv[p].fileDir] = [@ EXCEPT !.exists = TRUE]]
  /\ UNCHANGED <<home, walk, ch, rw, cfg, mods>>

\* Lines 95-98.
LocateMod(p) ==
  /\ inv[p].pc = "locate"
  /\ LET r == findGoMod(inv[p].fileDir, mods)
     IN Proceed(p, [inv[p] EXCEPT !.modDir = r.dir], "gomod",
                IF r.found THEN nil ELSE <<"go.mod not found for file">>, "b")
  /\ UNCHANGED <<home, walk, ch, rw, cfg, mods, fs>>

\* Lines 104-109: what main() makes of the parsed go.mod.
checkGoMod(modName, goVer) ==
  IF modName = <<>> THEN <<"module name not found in go.mod">>
  ELSE IF StrLess(goVer, FloorText) THEN <<"go mod version must be at least 1.18">>
  ELSE nil

\* Lines 99-109: go.mod is read (the read may fail) and checked.
ParseMod(p) ==
  /\ inv[p].pc = "gomod"
  /\ \/ Proceed(p, inv[p], "descr", <<"read go.mod failed">>, "b")
     \/ \E text \in cfg.texts :
          LET r == parseGoMod(text)
          IN Proceed(p, [inv[p] EXCEPT !.modName = r.modName, !.goVer = r.goVer],
                     "descr", checkGoMod(r.modName, r.goVer), "b")
  /\ UNCHANGED <<home, walk, ch, rw, cfg, mods, fs>>

\* Lines 111-122: the package's import path.
ImportPath(modName, modDir, fileDir) ==
  LET rel == Rel(modDir, fileDir)
      relPath == IF rel = <<".">> THEN <<>> ELSE rel
  IN [relPath |-> relPath, importPath |-> modName \o relPath]

\* Lines 111-135: the descriptor; no file is touched.
Describe(p) ==
  /\ inv[p].pc = "descr"
  /\ LET r == ImportPath(inv[p].modName, inv[p].modDir, inv[p].fileDir)
     IN Proceed(p, [inv[p] EXCEPT !.relPath = r.relPath, !.importPath = r.importPath],
                "mkdir", nil, "b")
  /\ UNCHANGED <<home, walk, ch, rw, cfg, mods, fs>>

\* The workspace of invocation p: tmpDir, keyed by the source file's directory.
Ws(p) == fs[inv[p].fileDir]

SetWs(p, w) == fs' = [fs EXCEPT ![inv[p].fileDir] = w]

\* Line 137: os.MkdirAll(tmpDir) takes a directory that is there as it is.
MkdirAll(p) ==
  /\ inv[p].pc = "mkdir"
  /\ IF Ws(p).exists
       THEN /\ Proceed(p, [inv[p] EXCEPT !.hasWs = TRUE], "create", nil, "c")
            /\ fs' = fs
       ELSE \E ok \in BOOLEAN :
              /\ Proceed(p, [inv[p] EXCEPT !.hasWs = ok], "create",
                         IF ok THEN nil ELSE <<"mkdir failed">>, "c")
              /\ SetWs(p, IF ok THEN EmptyWs ELSE Ws(p))
  /\ UNCHANGED <<home, walk, ch, rw, cfg, mods>>

\* Lines 139-143: os.Create(tmpMain) makes main.go or truncates the one there.
CreateMain(p) ==
  /\ inv[p].pc = "create"
  /\ \E ok \in BOOLEAN :
       LET done == ok /\ Ws(p).exists
       IN /\ Proceed(p, inv[p], "render",
                     IF done THEN nil ELSE <<"create main.go failed">>, "c")
          /\ SetWs(p, IF done
                        THEN [Ws(p) EXCEPT !.main = "empty", !.imp = <<>>, !.typ = "",
                                           !.rw = 0, !.fds = @ \cup {p}]
                        ELSE Ws(p))
  /\ UNCHANGED <<home, walk, ch, rw, cfg, mods>>

\* Lines 145-146: the template, rendered with the descriptor into the open
\* file; after a removal of the workspace the file written is no longer in it.
RenderMain(p) ==
  /\ inv[p].pc = "render"
  /\ \E ok \in BOOLEAN :
       /\ Proceed(p, inv[p], "copy",
                  IF ok THEN nil ELSE <<"write main.go failed">>, "c")
       /\ SetWs(p, IF ok /\ p \in Ws(p).fds
                     THEN [Ws(p) EXCEPT !.main = "text", !.imp = inv[p].importPath,
                                        !.typ = inv[p].type, !.rw = 0]
                     ELSE Ws(p))
  /\ UNCHANGED <<home, walk, ch, rw, cfg, mods>>

\* copyDeps: every directory of the snapshot made (the workspace itself
\* first), every file written over what is there; an error leaves the copy
\* as far as it got.
copyDeps(w, ok, part) ==
  IF ok THEN [w EXCEPT !.exists = TRUE, !.vendor = "raw"]
  ELSE IF part THEN [w EXCEPT !.exists = TRUE, !.vendor = "partial"]
  ELSE w

\* Line 149.
CopyDeps(p) ==
  /\ inv[p].pc = "copy"
  /\ \E ok, part \in BOOLEAN :
       /\ Proceed(p, inv[p], "rename", IF ok THEN nil ELSE <<"copy failed">>, "c")
       /\ SetWs(p, copyDeps(Ws(p), ok, part))
  /\ UNCHANGED <<home, walk, ch, rw, cfg, mods>>

\* renameImports on a readable manifest: every .go file under the root,
\* main.go and the vendored tree, is rewritten in place once more.
renameImports(w) ==
  [w EXCEPT !.rw = IF w.main = "text" /\ @ < 2 THEN @ + 1 ELSE @,
            !.vendor = IF @ = "raw" THEN "rw1" ELSE IF @ = "rw1" THEN "rwN" ELSE @]

\* Line 150: fails on a missing manifest, or part of the way.
RenameImports(p) ==
  /\ inv[p].pc = "rename"
  /\ \E ok \in BOOLEAN :
       LET readable == Ws(p).exists /\ Ws(p).vendor # "none"
           done == ok /\ readable
       IN /\ Proceed(p, inv[p], "run",
                     IF done THEN nil
                     ELSE IF readable THEN <<"rewrite failed">>
                     ELSE <<"read deps.txt failed">>, "d")
          /\ SetWs(p, IF done THEN renameImports(Ws(p))
                       ELSE IF readable THEN [Ws(p) EXCEPT !.vendor = "partial"]
                       ELSE Ws(p))
  /\ UNCHANGED <<home, walk, ch, rw, cfg, mods>>

\* What the child prints for type t.
Schema(t) == <<"schema of ", t>>

\* go run main.go in the workspace: it starts when the toolchain and the
\* working directory are there, builds when main.go and the vendored tree are
\* whole and rewritten once and the type is declared, and may write to its
\* standard error either way (noise).
goRun(w, start, noise) ==
  LET warn == IF noise THEN <<"go: warning">> ELSE <<>>
  IN IF ~(start /\ w.exists)
       THEN [started |-> FALSE, code |-> 0, stdout |-> <<>>, stderr |-> <<>>]
     ELSE IF w.main = "text" /\ w.rw = 1 /\ w.vendor = "rw1" /\ w.typ \in Declared
       THEN [started |-> TRUE, code |-> 0, stdout |-> Schema(w.typ), stderr |-> warn]
     ELSE [started |-> TRUE, code |-> 1, stdout |-> <<>>, stderr |-> warn]

\* cmd.Run(): an error when the child did not start or exited non-zero.
cmdRun(res) ==
  IF ~res.started THEN <<"exec: start failed">>
  ELSE IF res.code # 0 THEN <<"exit status 1">>
  ELSE nil

\* runMsg as it would be if a child that wrote to its standard error counted
\* as failed.
runMsgStderrFails(res) ==
  LET err == IF cmdRun(res) # nil THEN cmdRun(res)
             ELSE IF Len(res.stderr) > 0 THEN <<"stderr not empty">> ELSE nil
  IN IF err # nil
       THEN IF Len(res.stderr) > 0 THEN err \o <<"\n">> \o res.stderr ELSE err
       ELSE nil

\* Lines 165-171: the message main() fails with after cmd.Run(), or nil.
runMsg(res) ==
  LET err == cmdRun(res)
  IN IF err # nil
       THEN IF Len(res.stderr) > 0 THEN err \o <<"\n">> \o res.stderr ELSE err
       ELSE nil

\* Lines 152-171.
RunChild(p) ==
  /\ inv[p].pc = "run"
  /\ \E start, noise \in BOOLEAN :
       LET res == goRun(Ws(p), start, noise)
           msg == runMsg(res)
       IN Proceed(p, [inv[p] EXCEPT !.child = res, !.runOK = (msg = nil)],
                  "remove", msg, "e")
  /\ UNCHANGED <<home, walk, ch, rw, cfg, mods, fs>>

\* Line 173: os.RemoveAll(tmpDir); nothing to remove is no error.
RemoveAll(p) ==
  /\ inv[p].pc = "remove"
  /\ \E ok \in BOOLEAN :
       LET done == ok \/ ~Ws(p).exists
       IN /\ Proceed(p, inv[p], "print", IF done THEN nil ELSE <<"remove failed">>, "f")
          /\ SetWs(p, IF done THEN NoWs ELSE Ws(p))
  /\ UNCHANGED <<home, walk, ch, rw, cfg, mods>>

\* Line 175: the captured standard output, and the return from main().
PrintOut(p) ==
  /\ inv[p].pc = "print"
  /\ inv' = [inv EXCEPT ![p].pc = "exited"]
  /\ os' = [os EXCEPT ![p] = [@ EXCEPT !.stdout = @ \o inv[p].child.stdout,
                                       !.exited = TRUE, !.code = 0]]
  /\ UNCHANGED <<home, walk, ch, rw, cfg, mods, fs>>

\* ------------------------------------------- the rewrite, on the text

\* The files of a workspace, each name ending in its suffix, in the order
\* filepath.Walk meets them.
MainGo == <<"main", ".go">>

\* The template, which copyDeps copies with the rest of the embedded files.
MainTempl == <<"main", ".templ">>

LibGo == <<"vendored/dep/lib", ".go">>

DepsTxt == <<"vendored/deps", ".txt">>

WalkOrder == <<MainGo, MainTempl, LibGo, DepsTxt>>

\* No rewrite followed on the text.
RwOff ==
  [pc |-> "off", importPath |-> <<>>, files |-> <<>>, depList |-> <<>>, todo |-> <<>>,
   orig |-> <<>>]

\* Lines 200-205: the manifest is read and split into lines.
RwRead ==
  /\ rw.pc = "read"
  /\ \E ok \in BOOLEAN :
       rw' = IF ok
               THEN [rw EXCEPT !.pc = "walk", !.depList = Split(rw.files[DepsTxt]),
                               !.todo = WalkOrder]
               ELSE [rw EXCEPT !.pc = "failed"]
  /\ UNCHANGED <<home, walk, ch, cfg, mods, fs, inv, os>>

\* Lines 207-231: the walk's visit of the next file; a .go file is read,
\* rewritten and written back, any other file is passed over.
RwVisit ==
  /\ rw.pc = "walk"
  /\ rw.todo # <<>>
  /\ \E ok \in BOOLEAN :
       LET path == Head(rw.todo)
           rest == Tail(rw.todo)
       IN rw' = IF ~IsGoFile(path)
                  THEN [rw EXCEPT !.todo = rest,
                                  !.pc = IF rest = <<>> THEN "done" ELSE "walk"]
                ELSE IF ok
                  THEN [rw EXCEPT !.files[path] =
                                    renameText(@, rw.depList, 1, Prefix(rw.importPath)),
                                  !.todo = rest,
                                  !.pc = IF rest = <<>> THEN "done" ELSE "walk"]
                ELSE [rw EXCEPT !.pc = "failed"]
  /\ UNCHANGED <<home, walk, ch, cfg, mods, fs, inv, os>>

\* ---------------------------------------- the re-homed paths, as text

\* The separator of filepath: of Unix, and of Windows (the binaries are built
\* for both).
OsSeps == {"/", "\\"}

\* Module names, of one element and of two.
RehomeModNames == {<<"m">>, <<"h", "/", "m">>}

\* The elements of a path, joined by sep.
RECURSIVE JoinWith(_, _)
JoinWith(comps, sep) ==
  IF comps = <<>> THEN <<>>
  ELSE IF Len(comps) = 1 THEN <<comps[1]>>
  ELSE <<comps[1], sep>> \o JoinWith(Tail(comps), sep)

\* The texts between the occurrences of sep in s.
RECURSIVE SplitOn(_, _)
SplitOn(s, sep) ==
  IF \A i \in 1..Len(s) : s[i] # sep THEN <<s>>
  ELSE LET i == CHOOSE j \in 1..Len(s) : s[j] = sep /\ \A k \in 1..(j - 1) : s[k] # sep
       IN <<SubSeq(s, 1, i - 1)>> \o SplitOn(SubSeq(s, i + 1, Len(s)), sep)

\* A directory by its elements, each element a text.
Elements(dir) == [i \in 1..Len(dir) |-> <<dir[i]>>]

\* filepath.Join of a clean path written with "/": on Windows every "/"
\* becomes the system's separator.
FromSlash(path, sep) == [i \in 1..Len(path) |-> IF path[i] = "/" THEN sep ELSE path[i]]

\* No paths followed.
HomeOff ==
  [pc |-> "off", sep |-> "/", modDir |-> <<>>, fileDir |-> <<>>, modName |-> <<>>,
   dep |-> <<>>, relPath |-> <<>>, importPath |-> <<>>, prefix |-> <<>>, target |-> <<>>]

\* Lines 111-122 and 148: filepath.Rel gives the elements joined by the
\* system's separator, "." for none; the import path is made from it with
\* "/", the prefix from the import path with filepath.Join.
HomeDescribe ==
  /\ home.pc = "descr"
  /\ LET rel == JoinWith(Rel(home.modDir, home.fileDir), home.sep)
         relPath == IF rel = <<".">> THEN <<>> ELSE rel
         importPath == IF relPath # <<>> THEN home.modName \o <<"/">> \o relPath
                       ELSE home.modName
     IN home' = [home EXCEPT !.pc = "copy", !.relPath = relPath,
                             !.importPath = importPath,
                             !.prefix = FromSlash(Prefix(importPath), home.sep)]
  /\ UNCHANGED <<cfg, mods, fs, inv, os, rw, ch, walk>>

\* Lines 134, 149 and 184: the directory copyDeps copies the embedded
\* vendored/<dep> into, filepath.Join(tmpDir, path), by its elements.
HomeCopy ==
  /\ home.pc = "copy"
  /\ LET tmpDir == Append(home.fileDir, tmpDirName)
         path == SplitOn(<<vendorDirName, "/">> \o home.dep, "/")
     IN home' = [home EXCEPT !.pc = "done", !.target = Elements(tmpDir) \o path]
  /\ UNCHANGED <<cfg, mods, fs, inv, os, rw, ch, walk>>

\* The directory an import path denotes in the module modName at modDir:
\* the elements after the module's name, which "/" separates; an element
\* that is empty or has a backslash in it makes no import path.
Resolve(path, modName, modDir) ==
  LET rest == SubSeq(path, Len(modName) + 1, Len(path))
      comps == SplitOn(Tail(rest), "/")
  IN IF ~IsPrefix(modName, path) THEN [ok |-> FALSE, dir |-> <<>>]
     ELSE IF rest = <<>> THEN [ok |-> TRUE, dir |-> Elements(modDir)]
     ELSE IF \/ rest[1] # "/"
             \/ \E i \in 1..Len(comps) :
                  comps[i] = <<>> \/ \E k \in 1..Len(comps[i]) : comps[i][k] = "\\"
       THEN [ok |-> FALSE, dir |-> <<>>]
     ELSE [ok |-> TRUE, dir |-> Elements(modDir) \o comps]

\* ------------------------------------------- findGoMod, look by look

\* What a directory holds under the name go.mod: nothing, a file, or
\* something os.Stat succeeds on that is not a file (a directory).
GoModKinds == {"none", "file", "dir"}

\* No walk followed.
WalkOff ==
  [pc |-> "off", start |-> <<>>, dir |-> <<>>, kinds |-> [d \in Dirs |-> "none"],
   found |-> FALSE, result |-> <<>>, looks |-> 0]

\* Lines 236-243: one turn of the loop.
LocLook ==
  /\ walk.pc = "look"
  /\ walk' = IF walk.kinds[walk.dir] # "none"
              THEN [walk EXCEPT !.pc = "done", !.found = TRUE, !.result = walk.dir,
                               !.looks = @ + 1]
            ELSE IF Parent(walk.dir) = walk.dir
              THEN [walk EXCEPT !.pc = "done", !.found = FALSE, !.looks = @ + 1]
            ELSE [walk EXCEPT !.dir = Parent(walk.dir), !.looks = @ + 1]
  /\ UNCHANGED <<cfg, mods, fs, inv, os, rw, ch, home>>

\* ------------------------------------------------- the cache (cache.js)

\* JavaScript values given as a ttl, a default TTL or an interval: null,
\* undefined, a number, NaN (a number by typeof) or a string.
JsNull == [t |-> "null", n |-> 0]

JsUndefined == [t |-> "undefined", n |-> 0]

JsNaN == [t |-> "nan", n |-> 0]

JsString == [t |-> "string", n |-> 5]

JsNum(k) == [t |-> "number", n |-> k]

\* Milliseconds in a second: a ttl is in seconds, Date.now() in milliseconds.
Msec == 1000

Keys == {"j", "k"}

Vals == {"v", "w"}

\* The ttl arguments of set, the default TTLs and the intervals.
TtlArgs == {JsNull, JsUndefined, JsNaN, JsString, JsNum(1), JsNum(0), JsNum(-1)}

DefaultTTLs == {JsNull, JsNum(2), JsNum(0), JsString}

Intervals == {JsNull, JsUndefined, JsNum(1), JsNum(0), JsNum(-1), JsNaN}

\* The steps of the clock, in milliseconds, and how far it runs.
Ticks == {1000}

MaxNow == 2000

\* Timer handles the runtime can give out.
MaxTimers == 2

TimerIds == 1..MaxTimers

\* A key with no entry in the Map.
Absent == [present |-> FALSE, value |-> "", never |-> TRUE, expiry |-> 0]

\* An entry {value, expiry}; never stands for expiry null.
Item(val, never, expiry) ==
  [present |-> TRUE, value |-> val, never |-> never, expiry |-> expiry]

\* The last call: the method, the arguments the claims follow, the boolean
\* it returned (keys: whether any key was returned) and whether it threw.
NoRet ==
  [op |-> "none", key |-> "", val |-> "", ttl |-> JsUndefined, bool |-> FALSE,
   threw |-> FALSE]

\* No Cache object followed.
ChOff ==
  [pc |-> "off", cache |-> [k \in Keys |-> Absent], defaultTTL |-> JsNull,
   cleanupTimer |-> 0, timers |-> {}, now |-> 0,
   stored |-> [k \in Keys |-> Absent], ret |-> NoRet]

\* Lines 192-194.
isPositiveNumber(val) == val.t \in {"number", "nan"} /\ val.t # "nan" /\ val.n > 0

\* Lines 202-209, on the item of a key the Map holds.
isExpiredNever(item, now) == FALSE

isExpired(item, now) == IF item.never THEN FALSE ELSE item.expiry < now

\* Lines 181-190: the object after the call, and what the call returned.
stopCleanup(c) ==
  IF c.cleanupTimer # 0
    THEN [c |-> [c EXCEPT !.timers = @ \ {c.cleanupTimer}, !.cleanupTimer = 0],
          bool |-> TRUE]
    ELSE [c |-> c, bool |-> FALSE]

\* setInterval: a handle no active timer has.
NewTimer(c) == CHOOSE id \in TimerIds \ c.timers : \A o \in TimerIds \ c.timers : id <= o

\* Lines 162-175 without the stop of the timer before.
startCleanupKeepsOld(c, interval) ==
  IF ~isPositiveNumber(interval)
    THEN [c |-> c, threw |-> TRUE]
    ELSE [c |-> [c EXCEPT !.timers = @ \cup {NewTimer(c)}, !.cleanupTimer = NewTimer(c)],
          threw |-> FALSE]

\* Lines 162-175: interval undefined is the default, 60.
startCleanup(c, interval) ==
  LET iv == IF interval.t = "undefined" THEN JsNum(60) ELSE interval IN
  IF ~isPositiveNumber(iv)
    THEN [c |-> c, threw |-> TRUE]
    ELSE LET s == stopCleanup(c).c
         IN [c |-> [s EXCEPT !.timers = @ \cup {NewTimer(s)}, !.cleanupTimer = NewTimer(s)],
             threw |-> FALSE]

\* Lines 47-81 with every ttl but null and undefined taken as a number.
setAnyTtl(c, key, val, ttl) ==
  [c |-> [c EXCEPT !.cache[key] =
            Item(val, ttl.t = "null", c.now + ttl.n * Msec)],
   bool |-> TRUE]

\* Lines 47-81.
set(c, key, val, ttl) ==
  IF ttl.t = "null"
    THEN [c |-> [c EXCEPT !.cache[key] = Item(val, TRUE, 0)], bool |-> TRUE]
  ELSE IF ttl.t = "undefined"
    THEN [c |-> [c EXCEPT !.cache[key] =
                   IF c.defaultTTL.t = "number" /\ c.defaultTTL.n # 0
                     THEN Item(val, FALSE, c.now + c.defaultTTL.n * Msec)
                     ELSE Item(val, TRUE, 0)],
          bool |-> TRUE]
  ELSE IF ~isPositiveNumber(ttl)
    THEN [c |-> c, bool |-> FALSE]
  ELSE [c |-> [c EXCEPT !.cache[key] = Item(val, FALSE, c.now + ttl.n * Msec)],
        bool |-> TRUE]

\* Lines 107-109.
delete(c, key) ==
  [c |-> [c EXCEPT !.cache[key] = Absent], bool |-> c.cache[key].present]

\* Lines 88-100.
get(c, key) ==
  IF ~c.cache[key].present THEN [c |-> c, val |-> "undefined"]
  ELSE IF isExpired(c.cache[key], c.now) THEN [c |-> delete(c, key).c, val |-> "undefined"]
  ELSE [c |-> c, val |-> c.cache[key].value]

\* Lines 114-116.
clear(c) == [c EXCEPT !.cache = [k \in Keys |-> Absent]]

\* Lines 121-124.
dispose(c) == clear(stopCleanup(c).c)

\* Lines 130-132.
size(c) == Cardinality({k \in Keys : c.cache[k].present})

\* Lines 139-141.
has(c, key) == c.cache[key].present /\ ~isExpired(c.cache[key], c.now)

\* Lines 147-156.
keys(c) == {k \in Keys : c.cache[k].present /\ has(c, k)}

\* Lines 215-225.
cleanExpired(c) ==
  [c EXCEPT !.cache =
     [k \in Keys |-> IF c.cache[k].present /\ isExpired(c.cache[k], c.now)
                       THEN Absent ELSE c.cache[k]]]

\* The record of the call op.
Ret(op, key, ttl) == [NoRet EXCEPT !.op = op, !.key = key, !.ttl = ttl]

Live == ch.pc = "live"

CacheFrame == UNCHANGED <<cfg, mods, fs, inv, os, rw, walk, home>>

\* Lines 26-38: new Cache(defaultTTL, cleanupInterval); an undefined argument
\* is its default, null and 60.
Construct ==
  /\ ch.pc = "new"
  /\ \E dt \in DefaultTTLs \cup {JsUndefined}, iv \in Intervals :
       LET d == IF dt.t = "undefined" THEN JsNull ELSE dt
           i == IF iv.t = "undefined" THEN JsNum(60) ELSE iv
           c == [ch EXCEPT !.defaultTTL = d, !.pc = "live"]
       IN ch' = IF d.t # "null" /\ ~isPositiveNumber(d)
                  THEN [ch EXCEPT !.pc = "thrown",
                                  !.ret = [Ret("new", "", dt) EXCEPT !.threw = TRUE]]
                ELSE IF isPositiveNumber(i)
                  THEN [startCleanup(c, i).c EXCEPT !.ret = Ret("new", "", dt)]
                ELSE [c EXCEPT !.ret = Ret("new", "", dt)]
  /\ CacheFrame

CacheSet ==
  /\ Live
  /\ \E key \in Keys, val \in Vals, ttl \in TtlArgs :
       LET r == set(ch, key, val, ttl)
       IN ch' = [r.c EXCEPT !.ret = [Ret("set", key, ttl) EXCEPT !.bool = r.bool, !.val = val],
                            !.stored[key] = IF r.bool THEN r.c.cache[key] ELSE @]
  /\ CacheFrame

CacheGet ==
  /\ Live
  /\ \E key \in Keys :
       LET r == get(ch, key)
       IN ch' = [r.c EXCEPT !.ret = Ret("get", "", JsUndefined)]
  /\ CacheFrame

CacheDelete ==
  /\ Live
  /\ \E key \in Keys :
       LET r == delete(ch, key)
       IN ch' = [r.c EXCEPT !.ret = [Ret("delete", "", JsUndefined) EXCEPT !.bool = r.bool],
                            !.stored[key] = Absent]
  /\ CacheFrame

CacheClear ==
  /\ Live
  /\ ch' = [clear(ch) EXCEPT !.ret = Ret("clear", "", JsUndefined),
                             !.stored = [k \in Keys |-> Absent]]
  /\ CacheFrame

CacheDispose ==
  /\ Live
  /\ ch' = [dispose(ch) EXCEPT !.ret = Ret("dispose", "", JsUndefined),
                               !.stored = [k \in Keys |-> Absent]]
  /\ CacheFrame

CacheHas ==
  /\ Live
  /\ \E key \in Keys :
       ch' = [ch EXCEPT !.ret = [Ret("has", "", JsUndefined) EXCEPT !.bool = has(ch, key)]]
  /\ CacheFrame

CacheKeys ==
  /\ Live
  /\ ch' = [ch EXCEPT !.ret = [Ret("keys", "", JsUndefined) EXCEPT !.bool = keys(ch) # {}]]
  /\ CacheFrame

CacheStartCleanup ==
  /\ Live
  /\ \E iv \in Intervals :
       LET r == startCleanup(ch, iv)
       IN ch' = [r.c EXCEPT !.ret = [Ret("startCleanup", "", iv) EXCEPT !.threw = r.threw]]
  /\ CacheFrame

CacheStopCleanup ==
  /\ Live
  /\ LET r == stopCleanup(ch)
     IN ch' = [r.c EXCEPT !.ret = [Ret("stopCleanup", "", JsUndefined) EXCEPT !.bool = r.bool]]
  /\ CacheFrame

\* An active timer fires: lines 171-174.
CleanupTick ==
  /\ Live
  /\ ch.timers # {}
  /\ ch' = [cleanExpired(ch) EXCEPT !.ret = Ret("tick", "", JsUndefined)]
  /\ CacheFrame

\* Date.now() moves on.
ClockAdvance ==
  /\ Live
  /\ \E d \in Ticks :
       /\ ch.now + d <= MaxNow
       /\ ch' = [ch EXCEPT !.now = @ + d]
  /\ CacheFrame

\* ------------------------------------------------------- specifications

\* One invocation, over every input of the bounds.
OneCfg ==
  [runs |-> 1, par |-> 1, dirs |-> Dirs, types |-> {"T", "X"},
   srcs |-> {"openerr", "nopkg", "pkg"}, texts |-> GoModTexts,
   modsets |-> SUBSET Dirs]

GoodText ==
  <<[kw |-> "module", val |-> <<"m">>], [kw |-> "go", val |-> VerText(<<1, 18>>)]>>

\* Two invocations, the second after the first has exited, on files of one
\* module or of none.
SeqCfg ==
  [runs |-> 2, par |-> 1, dirs |-> {DirAt(MaxDepth), Parent(DirAt(MaxDepth))},
   types |-> {"T", "X"}, srcs |-> {"nopkg", "pkg"}, texts |-> {GoodText, <<>>},
   modsets |-> {{<<>>}, {}}]

\* Two invocations that may overlap, on files of one module or of none.
ConcCfg ==
  [runs |-> 2, par |-> 2, dirs |-> {DirAt(MaxDepth), Parent(DirAt(MaxDepth))},
   types |-> {"T", "U"}, srcs |-> {"nopkg", "pkg"}, texts |-> {GoodText, <<>>},
   modsets |-> {{<<>>}, {}}]

InitWith(c) ==
  /\ home = HomeOff
  /\ walk = WalkOff
  /\ rw = RwOff
  /\ ch = ChOff
  /\ cfg = c
  /\ mods \in c.modsets
  /\ fs = [d \in Dirs |-> NoWs]
  /\ inv = [p \in Procs |-> IdleInv]
  /\ os = [p \in Procs |-> NoOutput]

Init == InitWith(OneCfg)

InitSeq == InitWith(SeqCfg)

InitConc == InitWith(ConcCfg)

Next ==
  \E p \in Procs :
    \/ Start(p)
    \/ AbsPath(p)
    \/ ParsePkg(p)
    \/ LocateMod(p)
    \/ ParseMod(p)
    \/ Describe(p)
    \/ MkdirAll(p)
    \/ CreateMain(p)
    \/ RenderMain(p)
    \/ CopyDeps(p)
    \/ RenameImports(p)
    \/ RunChild(p)
    \/ RemoveAll(p)
    \/ PrintOut(p)

Spec == Init /\ [][Next]_vars

SpecSeq == InitSeq /\ [][Next]_vars

SpecConc == InitConc /\ [][Next]_vars

\* The schema library the entry point imports, and the dependency names of
\* the manifests: one inside another, and the library among them.
SchemaLib == <<"s">>

DepNames == {<<"s">>, <<"d">>, <<"s", "d">>, <<"d", "/", "s">>}

\* Entries of a manifest.
MaxDeps == 2

\* deps.txt as build.sh writes it: each name followed by a line break.
RECURSIVE ManifestText(_)
ManifestText(deps) ==
  IF deps = <<>> THEN <<>>
  ELSE Head(deps) \o <<"\n">> \o ManifestText(Tail(deps))

\* Import paths of target packages, some with a dependency's name in them.
ImportPaths == {<<"m">>, <<"m", "/", "p">>, <<"m", "/", "s">>, <<"d", "/", "s", "/", "p">>}

\* A vendored source file: it imports one of the dependencies, or nothing.
LibTexts == {ImportLine(d) : d \in DepNames} \cup {<<>>}

InitRewrite ==
  /\ home = HomeOff
  /\ walk = WalkOff
  /\ ch = ChOff
  /\ cfg = OneCfg
  /\ mods = {}
  /\ fs = [d \in Dirs |-> NoWs]
  /\ inv = [p \in Procs |-> IdleInv]
  /\ os = [p \in Procs |-> NoOutput]
  /\ \E path \in ImportPaths, deps \in SeqsUpTo(DepNames, MaxDeps), lib \in LibTexts :
       LET files == MainGo :> EntryPoint(path, SchemaLib, "T")
                      @@ MainTempl :> <<"template">>
                      @@ LibGo :> lib
                      @@ DepsTxt :> ManifestText(deps)
       IN rw = [pc |-> "read", importPath |-> path, depList |-> <<>>, todo |-> <<>>,
                files |-> files, orig |-> files]

NextRewrite == RwRead \/ RwVisit

\* renameImports alone, on the text of the files of one workspace.
SpecRewrite == InitRewrite /\ [][NextRewrite]_vars

InitLocate ==
  /\ home = HomeOff
  /\ ch = ChOff
  /\ rw = RwOff
  /\ cfg = OneCfg
  /\ mods = {}
  /\ fs = [d \in Dirs |-> NoWs]
  /\ inv = [p \in Procs |-> IdleInv]
  /\ os = [p \in Procs |-> NoOutput]
  /\ \E start \in Dirs, kinds \in [Dirs -> GoModKinds] :
       walk = [WalkOff EXCEPT !.pc = "look", !.start = start, !.dir = start,
                            !.kinds = kinds]

NextLocate == LocLook

\* findGoMod alone, from any directory of any tree of directories.
SpecLocate == InitLocate /\ [][NextLocate]_vars

InitRehome ==
  /\ walk = WalkOff
  /\ ch = ChOff
  /\ rw = RwOff
  /\ cfg = OneCfg
  /\ mods = {}
  /\ fs = [d \in Dirs |-> NoWs]
  /\ inv = [p \in Procs |-> IdleInv]
  /\ os = [p \in Procs |-> NoOutput]
  /\ \E sep \in OsSeps, modDir \in Dirs, fileDir \in Dirs,
        modName \in RehomeModNames, dep \in DepNames :
       /\ IsPrefix(modDir, fileDir)
       /\ home = [HomeOff EXCEPT !.pc = "descr", !.sep = sep, !.modDir = modDir,
                                 !.fileDir = fileDir, !.modName = modName, !.dep = dep]

NextRehome == HomeDescribe \/ HomeCopy

\* The import path, the prefix and the copy's directory, for every module
\* root, module name, source directory, manifest entry and system.
SpecRehome == InitRehome /\ [][NextRehome]_vars

\* No invocation of the tool is run beside the cache.
IdleCfg ==
  [runs |-> 0, par |-> 0, dirs |-> {}, types |-> {}, srcs |-> {}, texts |-> {},
   modsets |-> {{}}]

InitCache ==
  /\ home = HomeOff
  /\ walk = WalkOff
  /\ rw = RwOff
  /\ cfg = IdleCfg
  /\ mods = {}
  /\ fs = [d \in Dirs |-> NoWs]
  /\ inv = [p \in Procs |-> IdleInv]
  /\ os = [p \in Procs |-> NoOutput]
  /\ ch = [ChOff EXCEPT !.pc = "new"]

NextCache ==
  \/ Construct
  \/ CacheSet
  \/ CacheGet
  \/ CacheDelete
  \/ CacheClear
  \/ CacheDispose
  \/ CacheHas
  \/ CacheKeys
  \/ CacheStartCleanup
  \/ CacheStopCleanup
  \/ CleanupTick
  \/ ClockAdvance

\* One Cache object: its construction, then any calls, ticks and clock steps.
SpecCache == InitCache /\ [][NextCache]_vars

\* ------------------------------------------------------------------ claims

Exited(p) == inv[p].pc = "exited"

\* The one message on p's standard error, <<>> when there is none.
ErrorText(p) ==
  IF Len(os[p].stderr) = 1 /\ os[p].stderr[1].kind = "error"
    THEN os[p].stderr[1].error ELSE <<>>

\* p ended in the structured failure: one error object on standard error,
\* nothing on standard output, exit status 1.
StructuredFailure(p) ==
  /\ os[p].exited /\ os[p].code = 1
  /\ os[p].stdout = <<>>
  /\ Len(os[p].stderr) = 1
  /\ os[p].stderr[1].kind = "error" /\ os[p].stderr[1].error # <<>>

\* C1: an invocation that reached a fatal condition of class (b)-(e), raised
\* by whichever step, has written exactly one error object to standard
\* error and nothing to standard output, and has exited with status 1.
C1_StructuredFailure ==
  \A p \in Procs :
    inv[p].raised \in {"b", "c", "d", "e"} => Exited(p) /\ StructuredFailure(p)

\* C1's case: the child failed and wrote to its standard error, and the
\* invocation ended with that in the error object.
C1_Witness ==
  \E p \in Procs :
    /\ inv[p].raised = "e" /\ inv[p].child.stderr # <<>>
    /\ StructuredFailure(p)

\* C2: once the child's run is reported a success, the invocation ends with
\* the child's standard output on its own and exit status 0.
C2_SuccessIsFinal ==
  \A p \in Procs :
    inv[p].runOK /\ Exited(p) =>
      os[p].code = 0 /\ os[p].stdout = inv[p].child.stdout

\* p is past cmd.Run().
PastRun(p) ==
  \/ inv[p].pc \in {"remove", "print"}
  \/ Exited(p) /\ (inv[p].raised \in {"e", "f"} \/ os[p].code = 0)

\* C3 as claimed: a child's run counts as a success only when the child
\* exited 0 and its captured standard error is empty.
C3_SuccessNeedsSilence ==
  \A p \in Procs :
    PastRun(p) /\ inv[p].raised # "e" =>
      inv[p].child.started /\ inv[p].child.code = 0 /\ inv[p].child.stderr = <<>>

\* C3 as amended: a child's run counts as a success exactly when the child
\* started and exited 0, whatever it wrote to its standard error; the
\* message of a failed run is the run's error, followed by a line break and
\* the captured standard error when that is not empty.
C3_SuccessIffExitZero ==
  \A p \in Procs :
    PastRun(p) =>
      LET c == inv[p].child
          base == IF c.started THEN <<"exit status 1">> ELSE <<"exec: start failed">>
      IN /\ (inv[p].raised # "e") <=> (c.started /\ c.code = 0)
         /\ inv[p].raised = "e" =>
              ErrorText(p) = IF c.stderr = <<>> THEN base ELSE base \o <<"\n">> \o c.stderr

\* C3's case: a child that wrote to its standard error and exited 0, and the
\* invocation ended in success with the child's output.
C3_Witness ==
  \E p \in Procs :
    /\ Exited(p) /\ os[p].code = 0 /\ os[p].stdout # <<>>
    /\ inv[p].child.stderr # <<>>

\* The directory of the source file p was given.
SrcDir(p) == Parent(inv[p].file)

\* C4, its fatal paths: at the step that ends an invocation in failure after
\* its workspace was created, the workspace directory exists: it is left
\* behind.  (The claim says more, that the directory exists at the end of an
\* invocation in no other case; this part follows from it.)
C4_LeftIffFailed ==
  [][\A p \in Procs :
       ~Exited(p) /\ inv'[p].pc = "exited" /\ inv'[p].hasWs /\ os'[p].code = 1 =>
         fs'[inv'[p].fileDir].exists]_vars

\* C4 for invocations that do not overlap: at the step that ends an
\* invocation whose workspace was created, the directory exists if and only
\* if the invocation failed; at the step that ends one that did not get as
\* far, the directory is as the invocation found it.
C4_AloneLeftIffFailed ==
  [][\A p \in Procs :
       ~Exited(p) /\ inv'[p].pc = "exited" /\ inv'[p].file # <<>> =>
         IF inv'[p].hasWs
           THEN fs'[inv'[p].fileDir].exists <=> os'[p].code = 1
           ELSE fs'[Parent(inv'[p].file)] = inv'[p].fs0[Parent(inv'[p].file)]]_vars

\* C5: no directory that was there before the invocation started is taken as
\* its workspace, written into or removed by it.
C5_FreshWorkspace ==
  \A p \in Procs :
    inv[p].hasWs => ~inv[p].fs0[inv[p].fileDir].exists

\* p has a workspace and has not exited.
Using(p) == inv[p].hasWs /\ ~Exited(p)

\* C6: no step of one invocation creates, overwrites, rewrites or removes a
\* file in the workspace another invocation is using.
C6_NoInterference ==
  [][\A p \in Procs :
       Using(p) /\ inv'[p] = inv[p] => fs'[inv[p].fileDir] = fs[inv[p].fileDir]]_vars

\* The version floor, as a version.
Below118(v) == v[1] < 1 \/ (v[1] = 1 /\ v[2] < 18)

VersionFailure(p) ==
  StructuredFailure(p) /\ ErrorText(p) = <<"go mod version must be at least 1.18">>

\* p has read a go.mod that names its module, so the version is what decides.
VersionDecides(p) == inv[p].modName # <<>>

\* C7: with the go directive declaring major.minor, the invocation fails
\* with the message citing 1.18 if and only if major.minor is below 1.18 as a
\* version; with no go directive it fails with that message.
C7_VersionFloor ==
  \A p \in Procs :
    VersionDecides(p) =>
      /\ \A v \in Versions :
           inv[p].goVer = VerText(v) => (VersionFailure(p) <=> Below118(v))
      /\ inv[p].goVer = <<>> => VersionFailure(p)

\* main.go was visited by the walk.
MainRewritten == rw.pc \in {"walk", "done"} /\ \A i \in 1..Len(rw.todo) : rw.todo[i] # MainGo

\* C8: after the rewrite the entry point still imports the target package by
\* its original import path: that import line is as it was rendered.
C8_EntryImportKept ==
  MainRewritten =>
    LET line == ImportLine(rw.importPath)
    IN SubSeq(rw.files[MainGo], 1, Len(line)) = line

\* Neither dir nor a directory above it holds a go.mod.
NoGoModAbove(dir) == \A d \in Dirs : IsPrefix(d, dir) => d \notin mods

GoModNotFound(p) ==
  StructuredFailure(p) /\ ErrorText(p) = <<"go.mod not found for file">>

\* p was given both flags.
FlagsGiven(p) == inv[p].pc # "idle" /\ inv[p].raised # "a"

\* C9 as claimed: for a source file with no go.mod in its directory or above,
\* the invocation ends with the go.mod-not-found message, whatever the
\* source file holds.
C9_NotFoundWhatever ==
  \A p \in Procs :
    Exited(p) /\ FlagsGiven(p) /\ NoGoModAbove(SrcDir(p)) => GoModNotFound(p)

\* C9 as amended: for a source file with no go.mod in its directory or above,
\* the invocation never gets past the search for the module and ends in the
\* structured failure; the message is the go.mod-not-found one exactly when
\* the path was made absolute and the source file was opened and has a
\* package line (otherwise the error met first, of the path or of the source
\* file, is the one reported); and that message is reported for no other
\* source file.
C9_NotFoundAfterPackage ==
  \A p \in Procs :
    /\ FlagsGiven(p) /\ NoGoModAbove(SrcDir(p)) =>
         /\ inv[p].pc \in {"abs", "pkg", "locate", "exited"}
         /\ Exited(p) =>
              /\ StructuredFailure(p)
              /\ GoModNotFound(p) <=> inv[p].src = "pkg"
    /\ GoModNotFound(p) => NoGoModAbove(SrcDir(p))

\* C9's case: a source file with a package line and no go.mod above it, ended
\* with the go.mod-not-found message.
C9_Witness ==
  \E p \in Procs :
    /\ NoGoModAbove(SrcDir(p)) /\ inv[p].src = "pkg" /\ Len(SrcDir(p)) > 0
    /\ GoModNotFound(p)

Succeeded(p) == Exited(p) /\ os[p].code = 0

\* What p was run on.
Inputs(p) == <<inv[p].file, inv[p].type, inv[p].src, inv[p].modName, inv[p].goVer>>

\* C10: a run that succeeds leaves the filesystem as it found it, and two
\* runs on the same inputs that succeed print the same.
C10_Idempotent ==
  [][\A p \in Procs :
       ~Exited(p) /\ inv'[p].pc = "exited" /\ os'[p].code = 0 =>
         /\ fs' = inv'[p].fs0
         /\ \A q \in Procs :
              Succeeded(q) /\ Inputs(q) = Inputs(p) => os[q].stdout = os'[p].stdout]_vars

\* The most recent set of key that stored an entry was not followed by a
\* delete of key or a clear, and what it stored has expiry null or an expiry
\* that has not passed.
Valid(key) ==
  /\ ch.stored[key].present
  /\ ch.stored[key].never \/ ch.stored[key].expiry >= ch.now

\* C11: after any calls, cleanup ticks and clock steps, get(key) returns the
\* value of the most recent set of key if that entry was not deleted or
\* cleared since and has not expired, and undefined otherwise; has(key) is
\* true exactly in the first case, and keys() is the set of such keys.
C11_GetMostRecent ==
  Live =>
    /\ \A k \in Keys :
         /\ get(ch, k).val = IF Valid(k) THEN ch.stored[k].value ELSE "undefined"
         /\ has(ch, k) <=> Valid(k)
    /\ keys(ch) = {k \in Keys : Valid(k)}

\* C11's case: after a get, one key's entry has expired and is gone from the
\* Map while the other key's entry is still returned.
C11_Witness ==
  /\ Live /\ ch.ret.op = "get"
  /\ \E k, j \in Keys :
       /\ ch.stored[k].present /\ ~Valid(k) /\ ~ch.cache[k].present
       /\ Valid(j) /\ ~ch.stored[j].never

\* C12: set with ttl null stores an entry that never expires; with ttl
\* undefined one that expires the default TTL after now, or never when the
\* default is null; with a positive number one that expires ttl seconds after
\* now; and returns true.  With any other ttl it returns false and the Map is
\* as it was.  No other key's entry changes.
C12_SetTtl ==
  [][CacheSet =>
       LET r == ch'.ret
           k == r.key
       IN /\ \A j \in Keys \ {k} : ch'.cache[j] = ch.cache[j]
          /\ CASE r.ttl.t = "null" ->
                    r.bool /\ ch'.cache[k] = Item(r.val, TRUE, 0)
               [] r.ttl.t = "undefined" ->
                    /\ r.bool
                    /\ ch'.cache[k] =
                         IF ch.defaultTTL.t = "null" THEN Item(r.val, TRUE, 0)
                         ELSE Item(r.val, FALSE, ch.now + ch.defaultTTL.n * Msec)
               [] r.ttl.t = "number" /\ r.ttl.n > 0 ->
                    r.bool /\ ch'.cache[k] = Item(r.val, FALSE, ch.now + r.ttl.n * Msec)
               [] OTHER ->
                    ~r.bool /\ ch'.cache = ch.cache]_vars

\* C12's case: a set with ttl 0 on a cache with a default TTL returned false
\* and the entry the key had is still there.
C12_Witness ==
  /\ Live /\ ch.ret.op = "set" /\ ch.ret.ttl = JsNum(0) /\ ~ch.ret.bool
  /\ ch.defaultTTL.t = "number"
  /\ ch.cache[ch.ret.key].present /\ ch.cache[ch.ret.key].value # ch.ret.val

\* The orders a manifest's lines can come in.
Orders(depList) ==
  {[i \in 1..Len(depList) |-> depList[f[i]]] : f \in Permutations(1..Len(depList))}

\* C13: the rewritten text of every .go file is the one the manifest's
\* replacements give in any order of the manifest's lines.
C13_OrderIndependent ==
  rw.pc = "done" =>
    \A path \in {MainGo, LibGo} : \A deps \in Orders(rw.depList) :
      rw.files[path] = renameText(rw.orig[path], deps, 1, Prefix(rw.importPath))

\* Occurrences of pat in s, from position i on.
RECURSIVE Occ(_, _, _)
Occ(s, pat, i) ==
  IF i + Len(pat) - 1 > Len(s) THEN 0
  ELSE (IF SubSeq(s, i, i + Len(pat) - 1) = pat THEN 1 ELSE 0) + Occ(s, pat, i + 1)

\* The entries of the manifest that are not empty lines.
Entries == {rw.depList[i] : i \in 1..Len(rw.depList)} \ {<<>>}

\* C14: in a rewritten .go file every occurrence of a manifest entry that
\* the original text had stands with the prefix before it, and nowhere does
\* the prefix stand twice before an entry; the other files are as they were.
C14_PrefixedOnce ==
  rw.pc = "done" =>
    LET pre == Prefix(rw.importPath) \o <<"/">> IN
    /\ \A path \in {MainGo, LibGo} : \A d \in Entries :
         /\ Occ(rw.files[path], pre \o d, 1) >= Occ(rw.orig[path], d, 1)
         /\ Occ(rw.files[path], pre \o pre \o d, 1) = 0
    /\ \A path \in {DepsTxt, MainTempl} : rw.files[path] = rw.orig[path]

\* The start directory and the directories above it.
Ancestors(dir) == {d \in Dirs : IsPrefix(d, dir)}

\* The walk ended with the deepest directory of among, or with the not-found
\* signal exactly when among is empty.
EndedAtClosest(among) ==
  IF among = {} THEN ~walk.found
  ELSE /\ walk.found
       /\ walk.result \in among
       /\ \A d \in among : Len(d) <= Len(walk.result)

\* C15: the walk ends after at most one look per directory from the start to
\* the root, with the closest of them that contains a module-declaration
\* file, or with the not-found signal exactly when none of them contains one.
C15_ClosestModFile ==
  /\ walk.looks <= Len(walk.start) + 1
  /\ walk.pc = "done" =>
       EndedAtClosest({d \in Ancestors(walk.start) : walk.kinds[d] = "file"})

\* What C15 has right: the walk ends after at most one look per directory,
\* with the closest directory in which os.Stat succeeds on go.mod, whatever
\* that entry is.
C15_ClosestEntry ==
  /\ walk.looks <= Len(walk.start) + 1
  /\ walk.pc = "done" =>
       EndedAtClosest({d \in Ancestors(walk.start) : walk.kinds[d] # "none"})

\* C16: the child is run from a state in which no fatal condition was
\* raised, the module is located and named, the descriptor is built, main.go
\* is rendered from it, the snapshot is copied whole and the rewrite has been
\* done once over both; the child is run at most once; and after an
\* invocation has ended, by a fatal condition or not, nothing of it or of
\* the workspaces changes.
C16_PipelineOrder ==
  [][\A p \in Procs :
       /\ inv[p].pc = "run" /\ inv'[p].pc # "run" =>
            /\ inv[p].raised = "none" /\ ~inv[p].child.started
            /\ inv[p].modDir \in mods /\ IsPrefix(inv[p].modDir, inv[p].fileDir)
            /\ inv[p].modName # <<>>
            /\ inv[p].importPath =
                 ImportPath(inv[p].modName, inv[p].modDir, inv[p].fileDir).importPath
            /\ Ws(p).exists /\ Ws(p).main = "text"
            /\ Ws(p).imp = inv[p].importPath /\ Ws(p).typ = inv[p].type
            /\ Ws(p).vendor = "rw1" /\ Ws(p).rw = 1
       /\ inv[p].child.started => inv'[p].child = inv[p].child
       /\ Exited(p) => inv'[p] = inv[p] /\ os'[p] = os[p] /\ fs' = fs]_vars

\* C16's case: an invocation whose child was run, after every step before
\* it, and that came to its end with the child's output.
C16_Witness ==
  \E p \in Procs :
    /\ Exited(p) /\ inv[p].child.started /\ os[p].code = 0
    /\ inv[p].importPath # <<>>

\* C17: an invocation that ends on a missing flag or on a fatal condition of
\* the discovery has changed nothing in the filesystem: no step it took
\* changed a workspace, and the workspaces are as it found them.
C17_DiscoveryNoEffect ==
  [][\A p \in Procs :
       /\ inv'[p] # inv[p] /\ inv'[p].pc \in {"abs", "pkg", "locate", "gomod", "descr", "mkdir"}
            => fs' = fs
       /\ inv'[p] # inv[p] /\ inv'[p].raised \in {"a", "b"} =>
            /\ fs' = fs /\ fs' = inv'[p].fs0
            /\ ~inv'[p].hasWs]_vars

\* C17's case: a go.mod below the version floor, reported, with the
\* filesystem as it was.
C17_Witness ==
  \E p \in Procs :
    /\ VersionFailure(p) /\ inv[p].raised = "b"
    /\ fs = inv[p].fs0

\* At most one timer is active, and it is the one the object holds.
OneTimer(c) ==
  /\ Cardinality(c.timers) <= 1
  /\ c.timers = IF c.cleanupTimer = 0 THEN {} ELSE {c.cleanupTimer}

\* The parts of C18 that do not depend on the interval given: at most one
\* timer is active after any call; stopCleanup returns true exactly when a
\* timer was active and leaves none; after dispose no timer is active and
\* the cache is empty.
TimerCalls ==
  /\ ch'.pc = "live" => OneTimer(ch')
  /\ CacheStopCleanup => (ch'.ret.bool <=> ch.timers # {}) /\ ch'.timers = {}
  /\ CacheDispose => ch'.timers = {} /\ size(ch') = 0 /\ keys(ch') = {}

\* startCleanup threw and left the timers as they were.
ThrewUntouched ==
  /\ ch'.ret.threw
  /\ ch'.timers = ch.timers /\ ch'.cleanupTimer = ch.cleanupTimer

\* C18 as claimed: besides the above, startCleanup with an interval that is
\* not a number or not positive throws and leaves the active timer
\* untouched, and with a positive number starts a timer.
C18_OneTimer ==
  [][/\ TimerCalls
     /\ CacheStartCleanup =>
          IF ch'.ret.ttl.t = "number" /\ ch'.ret.ttl.n > 0
            THEN ~ch'.ret.threw /\ Cardinality(ch'.timers) = 1
            ELSE ThrewUntouched]_vars

\* C18 as amended: an interval of undefined is the default of 60 seconds and
\* starts a timer like a positive number; every other interval that is not a
\* positive number throws and leaves the active timer untouched.
C18_OneTimerDefault ==
  [][/\ TimerCalls
     /\ CacheStartCleanup =>
          IF ch'.ret.ttl.t = "undefined" \/ (ch'.ret.ttl.t = "number" /\ ch'.ret.ttl.n > 0)
            THEN ~ch'.ret.threw /\ Cardinality(ch'.timers) = 1
            ELSE ThrewUntouched]_vars

\* C18's case: startCleanup threw while a timer was active, and it still is.
C18_Witness ==
  /\ Live /\ ch.ret.op = "startCleanup" /\ ch.ret.threw
  /\ ch.timers # {} /\ OneTimer(ch)

\* The import path of dep after the rewrite denotes, in the target module,
\* the directory dep was copied into, and that directory is in the workspace.
Rehomed ==
  LET r == Resolve(home.prefix \o <<"/">> \o home.dep, home.modName, home.modDir)
  IN /\ r.ok /\ r.dir = home.target
     /\ IsPrefix(Elements(Append(home.fileDir, tmpDirName)), home.target)

\* C19: for every module root, module name, source directory in the module
\* and manifest entry, the rewritten import path denotes the directory of
\* the copy, under the workspace.
C19_Rehomed == home.pc = "done" => Rehomed

\* What C19 has right: the same where filepath's separator is "/".
C19_RehomedSlash == home.pc = "done" /\ home.sep = "/" => Rehomed

====
